---- MODULE Spec2Model ----
(***************************************************************************)
(* Worker message protocol of lama.browser: the WorkerClient of the UI     *)
(* thread (pending-request table, timeout timers, terminate) and the       *)
(* message router of the Web Worker (handler registry, dispatch, response  *)
(* construction), as written in the browser-platform quickstart            *)
(* (electron-ui/src/components/ChatLayout.tsx, lines 1074-1280).           *)
(***************************************************************************)
EXTENDS Integers, Sequences, FiniteSets, TLC

(* ---------------------------- bounds ----------------------------------- *)
\* number of send() calls that reach crypto.randomUUID()
MaxCalls == 2

\* number of checkQuota runs (the initial check and the interval's callbacks)
MaxPolls == 4
\* last tick of the clock
MaxTime == 3

(* ---------------------------- inputs ----------------------------------- *)
Ids == 1..MaxCalls
\* message types callers send; a type is unregistered as long as the worker
\* script has not called registerHandler for it
Types == {"onecore:getStatus"}
Payloads == {1, 2}
\* handler functions passed to registerHandler
HandlerFns == {"echo", "strict"}
NoHandler == "undefined"
NoCode == "undefined"
NoData == <<"undefined">>

(* --------------------------- variables --------------------------------- *)
VARIABLES
    worker,           \* WorkerClient.worker: 0 is null, 1 a Worker
    everCreated,      \* init() has evaluated `new Worker(...)` at least once
    pendingRequests,  \* WorkerClient.pendingRequests: id -> [type, timeout]
    timers,           \* timer handles armed by setTimeout and not yet fired/cleared
    nextId,           \* next fresh request id (crypto.randomUUID)
    requests,         \* id -> the type and payload send() was called with
    settled,          \* id -> sequence of resolve/reject invocations on the promise
    handlers,         \* worker: handlers Map, type -> handler function
    listening,        \* worker: the script ran to its end, the router is attached
    inbox,            \* requests posted to the worker, not yet received (FIFO)
    running,          \* requests whose handler was invoked and is awaited
    invoked,          \* id -> handler function the router invoked for it
    outbox,           \* responses posted by the worker, not yet delivered (FIFO)
    initialized,      \* WorkerOneCore.initialized
    isReady,          \* WorkerOneCore.isReady
    initFailed,       \* WorkerOneCore.initFailed
    initRuns,         \* positions of the WorkerOneCore.init() invocations in flight
    llmManager,       \* WorkerOneCore.llmManager is set
    platform,         \* navigator.storage as the browser provides it at the moment
    storageState,     \* StorageQuota: the storageState of the component
    now,              \* the value Date.now() returns, in ticks
    toasts,           \* StorageWarning: the toasts of the component
    removals,         \* ids whose removal timer was armed by dismissToast
    clearArmed,       \* the timer of dismissAll is armed
    emitted,          \* every toast checkQuota appended, in order
    polled,           \* the usagePercent of every checkQuota run, in order
    measuring,        \* results of getQuota() that a checkQuota run is awaiting
    lastOp            \* the client operation or callback that ran last

\* WorkerOneCore fields and the init() invocations in flight
coreVars == <<initialized, isReady, initFailed, initRuns, llmManager>>
\* the storage components of the UI and what they read from the browser
quotaVars == <<platform, storageState, now, toasts, removals, clearArmed, emitted, polled,
               measuring>>
clientVars == <<worker, everCreated, pendingRequests, timers, nextId, requests, settled>>
workerVars == <<handlers, listening, inbox, running, invoked, outbox, coreVars>>
vars == <<worker, everCreated, pendingRequests, timers, nextId, requests, settled,
          handlers, listening, inbox, running, invoked, outbox,
          initialized, isReady, initFailed, initRuns, llmManager,
          platform, storageState, now, toasts, removals, clearArmed, emitted, polled,
          measuring, lastOp>>

(* ----------------------------- Map helpers ----------------------------- *)
EmptyMap == [k \in {} |-> 0]
MapHas(m, k) == k \in DOMAIN m
MapSet(m, k, v) == [x \in (DOMAIN m) \cup {k} |-> IF x = k THEN v ELSE m[x]]
MapDelete(m, k) == [x \in (DOMAIN m) \ {k} |-> m[x]]

(* --------------------------- values ------------------------------------ *)
\* new Error(message) with an optional code property
Err(message, code) == [message |-> message, code |-> code]
Resolve(v) == [kind |-> "resolve", value |-> v, error |-> Err("", NoCode)]
Reject(e) == [kind |-> "reject", value |-> NoData, error |-> e]

\* message types of the MessageType union sent to a worker that owns a
\* WorkerOneCore: the bootstrap type, the status type and an ordinary one
BootstrapType == "onecore:initialize"
StatusType == "onecore:getStatus"
WorkerTypes == {BootstrapType, StatusType, "chat:sendMessage"}

\* the WorkerInitPhase that the fields of WorkerOneCore stand for
Phase ==
    IF initialized /\ isReady THEN "ready"
    ELSE IF initFailed THEN "error"
    ELSE IF "initializing" \in initRuns THEN "initializing"
    ELSE IF "loading" \in initRuns THEN "loading"
    ELSE "not_started"

\* the handler registered for the status type, and the GetStatusResponse it
\* resolves to: the initialized flag and the phase of the initState
StatusFn == "status"
GetStatus == <<"status", initialized, Phase>>

\* a handler passed to registerHandler, applied to a payload: "echo" returns
\* data; "strict" throws `new Error('')` for payload 1 and an Error with
\* message 'boom' and a code property for payload 2
\* the handler registered for ai:chat; getLLMManager() is its first statement,
\* so whether llmManager is set is decided when the handler is invoked
AiChatFn == "aiChat"
AiChatNoManager == "aiChatNoManager"
Started(h) == IF h = AiChatFn /\ ~llmManager THEN AiChatNoManager ELSE h
\* what the ai:chat handler returns: payload 1 names no model (and no default
\* model is set), payload 2 names one
AiChat(h, p) ==
    IF h = AiChatNoManager
    THEN <<"failed", "LLM Manager not initialized - call onecore:initialize first">>
    ELSE IF p = 1
    THEN <<"failed", "No model specified or default model set">>
    ELSE <<"content", "">>

\* the handler registered for the bootstrap type: it calls
\* workerOneCore.init() and awaits it; it resolves when init() has set the
\* worker ready and throws what init() rethrows
BootstrapFn == "initialize"
AwaitInit == "awaitInit"

HandlerResult(h, p) ==
    IF h = StatusFn
    THEN [ok |-> TRUE, data |-> GetStatus, message |-> "", code |-> NoCode]
    ELSE IF h \in {BootstrapFn, AwaitInit}
    THEN IF initialized /\ isReady
         THEN [ok |-> TRUE, data |-> <<"initialized", TRUE>>, message |-> "",
               code |-> NoCode]
         ELSE [ok |-> FALSE, data |-> NoData, message |-> "Initialization failed",
               code |-> NoCode]
    ELSE IF h \in {AiChatFn, AiChatNoManager}
    THEN [ok |-> TRUE, data |-> AiChat(h, p), message |-> "", code |-> NoCode]
    ELSE IF h = "strict"
    THEN [ok |-> FALSE, data |-> NoData,
          message |-> IF p = 2 THEN "boom" ELSE "",
          code |-> IF p = 2 THEN "PERMISSION_DENIED" ELSE NoCode]
    ELSE [ok |-> TRUE, data |-> <<h, p>>, message |-> "", code |-> NoCode]

\* mutant: the success response is built without its data field
SuccessResponseNoData(id, data) ==
    [id |-> id, success |-> TRUE, data |-> NoData, error |-> Err("", NoCode)]

SuccessResponse(id, data) ==
    [id |-> id, success |-> TRUE, data |-> data, error |-> Err("", NoCode)]
\* mutant: the catch block builds its response with a data field as well
ErrorResponseWithData(id, message) ==
    [id |-> id, success |-> FALSE, data |-> <<"partial">>,
     error |-> Err(message, "OPERATION_FAILED")]

ErrorResponse(id, message) ==
    [id |-> id, success |-> FALSE, data |-> NoData,
     error |-> Err(message, "OPERATION_FAILED")]

\* `again` tells that terminate() ran twice in a row
Op(name) == [op |-> name, again |-> name = "terminate" /\ lastOp.op = "terminate"]

(* ------------------------- storage values ----------------------------- *)
\* a property the browser's estimate does not carry
Undefined == -1
\* StorageQuota: useState<StorageState | null>(null)
NoState == [set |-> FALSE]
\* the browser the page is loaded in: the StorageManager API is complete,
\* the origin uses nothing of its quota and storage is not persistent
FirstPlatform == [api |-> "full", usage |-> 0, quota |-> 100, persisted |-> "false"]

(* ------------------------------ Init ----------------------------------- *)
Init ==
    /\ worker = 0
    /\ everCreated = FALSE
    /\ pendingRequests = EmptyMap
    /\ timers = {}
    /\ nextId = 1
    /\ requests = EmptyMap
    /\ settled = [i \in Ids |-> <<>>]
    /\ handlers = EmptyMap
    /\ listening = FALSE
    /\ inbox = <<>>
    /\ running = {}
    /\ invoked = [i \in Ids |-> NoHandler]
    /\ outbox = <<>>
    /\ initialized = FALSE
    /\ isReady = FALSE
    /\ initFailed = FALSE
    /\ initRuns = {}
    /\ llmManager = FALSE
    /\ platform = FirstPlatform
    /\ storageState = NoState
    /\ now = 0
    /\ toasts = <<>>
    /\ removals = {}
    /\ clearArmed = FALSE
    /\ emitted = <<>>
    /\ polled = <<>>
    /\ measuring = {}
    /\ lastOp = [op |-> "new", again |-> FALSE]

(* ------------------------- WorkerClient -------------------------------- *)
\* mutant: init() without its `if (this.worker)` guard
ClientInitNoGuard ==
    /\ worker' = 1
    /\ everCreated' = TRUE
    /\ handlers' = EmptyMap
    /\ listening' = FALSE
    /\ initialized' = FALSE
    /\ isReady' = FALSE
    /\ initFailed' = FALSE
    /\ initRuns' = {}
    /\ llmManager' = FALSE
    /\ lastOp' = Op("init")
    /\ UNCHANGED <<pendingRequests, timers, nextId, requests, settled,
                   inbox, running, invoked, outbox, quotaVars>>

\* WorkerClient.init
ClientInit ==
    /\ IF worker # 0
       THEN /\ lastOp' = Op("initWarned")
            /\ UNCHANGED <<worker, everCreated, handlers, listening, coreVars>>
       ELSE /\ worker' = 1
            /\ everCreated' = TRUE
            /\ handlers' = EmptyMap
            /\ listening' = FALSE
            /\ initialized' = FALSE
            /\ isReady' = FALSE
            /\ initFailed' = FALSE
            /\ initRuns' = {}
            /\ llmManager' = FALSE
            /\ lastOp' = Op("init")
    /\ UNCHANGED <<pendingRequests, timers, nextId, requests, settled,
                   inbox, running, invoked, outbox, quotaVars>>

\* mutant: send stores the pending entry without arming the timeout
SendNoTimer(type, payload) ==
    IF worker = 0
    THEN /\ lastOp' = Op("sendThrew")
         /\ UNCHANGED <<clientVars, workerVars, quotaVars>>
    ELSE /\ nextId <= MaxCalls
         /\ LET id == nextId
                request == [id |-> id, type |-> type, payload |-> payload]
            IN /\ nextId' = nextId + 1
               /\ requests' = MapSet(requests, id,
                      [type |-> type, payload |-> payload])
               /\ pendingRequests' =
                      MapSet(pendingRequests, id, [type |-> type, timeout |-> id])
               /\ inbox' = Append(inbox, request)
               /\ lastOp' = Op("send")
         /\ UNCHANGED <<worker, everCreated, timers, settled, handlers, listening,
                        running, invoked, coreVars, outbox, quotaVars>>

\* mutant: send checks this.worker only after it has armed the timeout and
\* stored the pending entry
SendLateGuard(type, payload) ==
    /\ nextId <= MaxCalls
    /\ LET id == nextId
           request == [id |-> id, type |-> type, payload |-> payload]
       IN /\ nextId' = nextId + 1
          /\ requests' = MapSet(requests, id,
                 [type |-> type, payload |-> payload])
          /\ timers' = timers \cup {id}
          /\ pendingRequests' =
                 MapSet(pendingRequests, id, [type |-> type, timeout |-> id])
          /\ IF worker = 0
             THEN /\ lastOp' = Op("sendThrew")
                  /\ UNCHANGED inbox
             ELSE /\ inbox' = Append(inbox, request)
                  /\ lastOp' = Op("send")
    /\ UNCHANGED <<worker, everCreated, settled, handlers, listening,
                   running, invoked, coreVars, outbox, quotaVars>>

\* WorkerClient.send
Send(type, payload) ==
    IF worker = 0
    THEN /\ lastOp' = Op("sendThrew")
         /\ UNCHANGED <<clientVars, workerVars, quotaVars>>
    ELSE /\ nextId <= MaxCalls
         /\ LET id == nextId
                request == [id |-> id, type |-> type, payload |-> payload]
            IN /\ nextId' = nextId + 1
               /\ requests' = MapSet(requests, id,
                      [type |-> type, payload |-> payload])
               /\ timers' = timers \cup {id}
               /\ pendingRequests' =
                      MapSet(pendingRequests, id, [type |-> type, timeout |-> id])
               /\ inbox' = Append(inbox, request)
               /\ lastOp' = Op("send")
         /\ UNCHANGED <<worker, everCreated, settled, handlers, listening,
                        running, invoked, coreVars, outbox, quotaVars>>

\* mutant: the timeout callback rejects without deleting the pending entry
TimeoutNoDelete(id) ==
    /\ id \in timers
    /\ timers' = timers \ {id}
    /\ settled' = [settled EXCEPT ![id] = Append(@, Reject(Err("Request timeout", NoCode)))]
    /\ lastOp' = Op("timeout")
    /\ UNCHANGED <<worker, everCreated, pendingRequests, nextId, requests, workerVars, quotaVars>>

\* mutant: the timeout callback clears the whole pending table
TimeoutClearsAll(id) ==
    /\ id \in timers
    /\ timers' = timers \ {id}
    /\ pendingRequests' = EmptyMap
    /\ settled' = [settled EXCEPT ![id] = Append(@, Reject(Err("Request timeout", NoCode)))]
    /\ lastOp' = Op("timeout")
    /\ UNCHANGED <<worker, everCreated, nextId, requests, workerVars, quotaVars>>

\* mutant: the timeout callback also cancels the request in the worker
TimeoutCancelsHandler(id) ==
    /\ id \in timers
    /\ timers' = timers \ {id}
    /\ pendingRequests' = MapDelete(pendingRequests, id)
    /\ settled' = [settled EXCEPT ![id] =
                      Append(@, Reject(Err("Request timeout", NoCode)))]
    /\ running' = {r \in running : r.id # id}
    /\ lastOp' = Op("timeout")
    /\ UNCHANGED <<worker, everCreated, nextId, requests, handlers, listening, inbox,
                   invoked, coreVars, outbox, quotaVars>>

\* the setTimeout callback armed by send
Timeout(id) ==
    /\ id \in timers
    /\ timers' = timers \ {id}
    /\ pendingRequests' = MapDelete(pendingRequests, id)
    /\ settled' = [settled EXCEPT ![id] =
                      Append(@, Reject(Err("Request timeout", NoCode)))]
    /\ lastOp' = Op("timeout")
    /\ UNCHANGED <<worker, everCreated, nextId, requests, workerVars, quotaVars>>

\* mutant: a response settles the oldest pending call instead of the one
\* whose id it carries
HandleResponseFifo ==
    /\ outbox # <<>>
    /\ LET response == Head(outbox)
       IN /\ outbox' = Tail(outbox)
          /\ IF DOMAIN pendingRequests = {}
             THEN /\ lastOp' = Op("dropped")
                  /\ UNCHANGED <<pendingRequests, timers, settled>>
             ELSE LET first == CHOOSE i \in DOMAIN pendingRequests :
                                  \A j \in DOMAIN pendingRequests : i <= j
                  IN /\ timers' = timers \ {pendingRequests[first].timeout}
                     /\ pendingRequests' = MapDelete(pendingRequests, first)
                     /\ settled' = [settled EXCEPT ![first] =
                            Append(@, IF response.success
                                      THEN Resolve(response.data)
                                      ELSE Reject(Err(response.error.message,
                                                      response.error.code)))]
                     /\ lastOp' = Op("response")
    /\ UNCHANGED <<worker, everCreated, nextId, requests,
                   handlers, listening, inbox, running, invoked, coreVars, quotaVars>>

\* mutant: a response with an unknown id is treated as a protocol failure
\* that rejects every pending call
HandleResponseStrict ==
    /\ outbox # <<>>
    /\ LET response == Head(outbox)
       IN /\ outbox' = Tail(outbox)
          /\ IF ~MapHas(pendingRequests, response.id)
             THEN /\ lastOp' = Op("dropped")
                  /\ timers' = timers \ DOMAIN pendingRequests
                  /\ pendingRequests' = EmptyMap
                  /\ settled' = [i \in Ids |->
                         IF MapHas(pendingRequests, i)
                         THEN Append(settled[i], Reject(Err("Unknown response", NoCode)))
                         ELSE settled[i]]
             ELSE LET pending == pendingRequests[response.id]
                  IN /\ timers' = timers \ {pending.timeout}
                     /\ pendingRequests' = MapDelete(pendingRequests, response.id)
                     /\ settled' = [settled EXCEPT ![response.id] =
                            Append(@, IF response.success
                                      THEN Resolve(response.data)
                                      ELSE Reject(Err(response.error.message,
                                                      response.error.code)))]
                     /\ lastOp' = Op("response")
    /\ UNCHANGED <<worker, everCreated, nextId, requests,
                   handlers, listening, inbox, running, invoked, coreVars, quotaVars>>

\* mutant: the rejection Error is built without the response's error code
HandleResponseNoCode ==
    /\ outbox # <<>>
    /\ LET response == Head(outbox)
       IN /\ outbox' = Tail(outbox)
          /\ IF ~MapHas(pendingRequests, response.id)
             THEN /\ lastOp' = Op("dropped")
                  /\ UNCHANGED <<pendingRequests, timers, settled>>
             ELSE LET pending == pendingRequests[response.id]
                  IN /\ timers' = timers \ {pending.timeout}
                     /\ pendingRequests' = MapDelete(pendingRequests, response.id)
                     /\ settled' = [settled EXCEPT ![response.id] =
                            Append(@, IF response.success
                                      THEN Resolve(response.data)
                                      ELSE Reject(Err(
                                             IF response.error.message = ""
                                             THEN "Unknown error"
                                             ELSE response.error.message,
                                             NoCode)))]
                     /\ lastOp' = Op("response")
    /\ UNCHANGED <<worker, everCreated, nextId, requests,
                   handlers, listening, inbox, running, invoked, coreVars, quotaVars>>

\* mutant: a response settles its call without clearing the timeout timer
HandleResponseNoClearTimeout ==
    /\ outbox # <<>>
    /\ LET response == Head(outbox)
       IN /\ outbox' = Tail(outbox)
          /\ IF ~MapHas(pendingRequests, response.id)
             THEN /\ lastOp' = Op("dropped")
                  /\ UNCHANGED <<pendingRequests, timers, settled>>
             ELSE LET pending == pendingRequests[response.id]
                  IN /\ timers' = timers
                     /\ pendingRequests' = MapDelete(pendingRequests, response.id)
                     /\ settled' = [settled EXCEPT ![response.id] =
                            Append(@, IF response.success
                                      THEN Resolve(response.data)
                                      ELSE Reject(Err(
                                             IF response.error.message = ""
                                             THEN "Unknown error"
                                             ELSE response.error.message,
                                             response.error.code)))]
                     /\ lastOp' = Op("response")
    /\ UNCHANGED <<worker, everCreated, nextId, requests,
                   handlers, listening, inbox, running, invoked, coreVars, quotaVars>>

\* WorkerClient.handleResponse
HandleResponse ==
    /\ outbox # <<>>
    /\ LET response == Head(outbox)
       IN /\ outbox' = Tail(outbox)
          /\ IF ~MapHas(pendingRequests, response.id)
             THEN /\ lastOp' = Op("dropped")
                  /\ UNCHANGED <<pendingRequests, timers, settled>>
             ELSE LET pending == pendingRequests[response.id]
                  IN /\ timers' = timers \ {pending.timeout}
                     /\ pendingRequests' = MapDelete(pendingRequests, response.id)
                     /\ settled' = [settled EXCEPT ![response.id] =
                            Append(@, IF response.success
                                      THEN Resolve(response.data)
                                      ELSE Reject(Err(
                                             IF response.error.message = ""
                                             THEN "Unknown error"
                                             ELSE response.error.message,
                                             response.error.code)))]
                     /\ lastOp' = Op("response")
    /\ UNCHANGED <<worker, everCreated, nextId, requests,
                   handlers, listening, inbox, running, invoked, coreVars, quotaVars>>

\* mutant: terminate rejects the pending calls without clearing their timers
TerminateNoClearTimeout ==
    /\ worker' = 0
    /\ IF worker # 0
       THEN /\ inbox' = <<>>
            /\ running' = {}
            /\ handlers' = EmptyMap
            /\ listening' = FALSE
       ELSE UNCHANGED <<inbox, running, handlers, listening>>
    /\ settled' = [i \in Ids |->
                      IF MapHas(pendingRequests, i)
                      THEN Append(settled[i], Reject(Err("Worker terminated", NoCode)))
                      ELSE settled[i]]
    /\ pendingRequests' = EmptyMap
    /\ lastOp' = Op("terminate")
    /\ UNCHANGED <<everCreated, timers, nextId, requests, invoked, coreVars, outbox, quotaVars>>

\* mutant: terminate rejects the pending calls without emptying the table
TerminateNoClear ==
    /\ worker' = 0
    /\ IF worker # 0
       THEN /\ inbox' = <<>>
            /\ running' = {}
            /\ handlers' = EmptyMap
            /\ listening' = FALSE
       ELSE UNCHANGED <<inbox, running, handlers, listening>>
    /\ timers' = timers \ {pendingRequests[i].timeout : i \in DOMAIN pendingRequests}
    /\ settled' = [i \in Ids |->
                      IF MapHas(pendingRequests, i)
                      THEN Append(settled[i], Reject(Err("Worker terminated", NoCode)))
                      ELSE settled[i]]
    /\ lastOp' = Op("terminate")
    /\ UNCHANGED <<everCreated, pendingRequests, nextId, requests, invoked, coreVars, outbox, quotaVars>>

\* WorkerClient.terminate
Terminate ==
    /\ worker' = 0
    /\ IF worker # 0
       THEN /\ inbox' = <<>>
            /\ running' = {}
            /\ handlers' = EmptyMap
            /\ listening' = FALSE
       ELSE UNCHANGED <<inbox, running, handlers, listening>>
    /\ timers' = timers \ {pendingRequests[i].timeout : i \in DOMAIN pendingRequests}
    /\ settled' = [i \in Ids |->
                      IF MapHas(pendingRequests, i)
                      THEN Append(settled[i], Reject(Err("Worker terminated", NoCode)))
                      ELSE settled[i]]
    /\ pendingRequests' = EmptyMap
    /\ lastOp' = Op("terminate")
    /\ UNCHANGED <<everCreated, nextId, requests, invoked, coreVars, outbox, quotaVars>>

\* the 'error' listener attached by init
WorkerError ==
    /\ worker # 0
    /\ lastOp' = Op("workerError")
    /\ UNCHANGED <<clientVars, workerVars, quotaVars>>

(* ----------------------------- worker ---------------------------------- *)
\* registerHandler, called while the worker script runs
RegisterHandler(type, h) ==
    /\ worker # 0
    /\ ~listening
    /\ handlers' = MapSet(handlers, type, h)
    /\ UNCHANGED lastOp
    /\ UNCHANGED <<clientVars, listening, inbox, running, invoked, coreVars, outbox, quotaVars>>

\* the worker script reaches self.addEventListener('message', ...) and ends
WorkerListen ==
    /\ worker # 0
    /\ ~listening
    /\ listening' = TRUE
    /\ UNCHANGED lastOp
    /\ UNCHANGED <<clientVars, handlers, inbox, running, invoked, coreVars, outbox, quotaVars>>

\* mutant: the router answers every non-bootstrap request taken while the
\* phase is not ready with a not-initialized error
RouterReceiveGated ==
    /\ listening
    /\ inbox # <<>>
    /\ LET request == Head(inbox)
       IN /\ inbox' = Tail(inbox)
          /\ IF Phase # "ready" /\ request.type # BootstrapType
             THEN /\ outbox' = Append(outbox,
                        [id |-> request.id, success |-> FALSE, data |-> NoData,
                         error |-> Err("Worker not initialized",
                                       "WORKER_NOT_INITIALIZED")])
                  /\ UNCHANGED <<running, invoked>>
             ELSE IF ~MapHas(handlers, request.type)
             THEN /\ outbox' = Append(outbox,
                        ErrorResponse(request.id, "No handler registered for type"))
                  /\ UNCHANGED <<running, invoked>>
             ELSE /\ running' = running \cup
                        {[id |-> request.id, payload |-> request.payload,
                          h |-> Started(handlers[request.type])]}
                  /\ invoked' = [invoked EXCEPT ![request.id] = handlers[request.type]]
                  /\ UNCHANGED outbox
          /\ UNCHANGED lastOp
    /\ UNCHANGED <<clientVars, handlers, listening, coreVars, quotaVars>>

\* mutant: the router answers every request taken while the phase is not
\* ready with a not-initialized error, the bootstrap request included
RouterReceiveGateAll ==
    /\ listening
    /\ inbox # <<>>
    /\ LET request == Head(inbox)
       IN /\ inbox' = Tail(inbox)
          /\ IF Phase # "ready"
             THEN /\ outbox' = Append(outbox,
                        [id |-> request.id, success |-> FALSE, data |-> NoData,
                         error |-> Err("Worker not initialized",
                                       "WORKER_NOT_INITIALIZED")])
                  /\ UNCHANGED <<running, invoked>>
             ELSE IF ~MapHas(handlers, request.type)
             THEN /\ outbox' = Append(outbox,
                        ErrorResponse(request.id, "No handler registered for type"))
                  /\ UNCHANGED <<running, invoked>>
             ELSE /\ running' = running \cup
                        {[id |-> request.id, payload |-> request.payload,
                          h |-> Started(handlers[request.type])]}
                  /\ invoked' = [invoked EXCEPT ![request.id] = handlers[request.type]]
                  /\ UNCHANGED outbox
          /\ UNCHANGED lastOp
    /\ UNCHANGED <<clientVars, handlers, listening, coreVars, quotaVars>>

\* mutant: the router lets requests through as soon as an init() invocation
\* has got as far as assigning llmManager
RouterReceiveByProgress ==
    /\ listening
    /\ inbox # <<>>
    /\ LET request == Head(inbox)
       IN /\ inbox' = Tail(inbox)
          /\ IF Phase # "ready" /\ ~llmManager /\ request.type # BootstrapType
             THEN /\ outbox' = Append(outbox,
                        [id |-> request.id, success |-> FALSE, data |-> NoData,
                         error |-> Err("Worker not initialized",
                                       "WORKER_NOT_INITIALIZED")])
                  /\ UNCHANGED <<running, invoked>>
             ELSE IF ~MapHas(handlers, request.type)
             THEN /\ outbox' = Append(outbox,
                        ErrorResponse(request.id, "No handler registered for type"))
                  /\ UNCHANGED <<running, invoked>>
             ELSE /\ running' = running \cup
                        {[id |-> request.id, payload |-> request.payload,
                          h |-> Started(handlers[request.type])]}
                  /\ invoked' = [invoked EXCEPT ![request.id] = handlers[request.type]]
                  /\ UNCHANGED outbox
          /\ UNCHANGED lastOp
    /\ UNCHANGED <<clientVars, handlers, listening, coreVars, quotaVars>>

\* message router, up to the await of the handler
RouterReceive ==
    /\ listening
    /\ inbox # <<>>
    /\ LET request == Head(inbox)
       IN /\ inbox' = Tail(inbox)
          /\ IF ~MapHas(handlers, request.type)
             THEN /\ outbox' = Append(outbox,
                        ErrorResponse(request.id, "No handler registered for type"))
                  /\ UNCHANGED <<running, invoked>>
             ELSE /\ running' = running \cup
                        {[id |-> request.id, payload |-> request.payload,
                          h |-> Started(handlers[request.type])]}
                  /\ invoked' = [invoked EXCEPT ![request.id] = handlers[request.type]]
                  /\ UNCHANGED outbox
          /\ UNCHANGED lastOp
    /\ UNCHANGED <<clientVars, handlers, listening, coreVars, quotaVars>>

\* mutant: the router posts nothing when the awaited handler throws
RouterRespondSilentThrow(r) ==
    /\ r \in running
    /\ running' = running \ {r}
    /\ LET result == HandlerResult(r.h, r.payload)
       IN outbox' = IF result.ok
                    THEN Append(outbox, SuccessResponse(r.id, result.data))
                    ELSE outbox
    /\ UNCHANGED lastOp
    /\ UNCHANGED <<clientVars, handlers, listening, inbox, invoked, coreVars, quotaVars>>

\* message router, from the completion of the awaited handler
RouterRespond(r) ==
    /\ r \in running
    /\ running' = running \ {r}
    /\ LET result == HandlerResult(r.h, r.payload)
       IN outbox' = Append(outbox,
              IF result.ok THEN SuccessResponse(r.id, result.data)
                           ELSE ErrorResponse(r.id, result.message))
    /\ UNCHANGED lastOp
    /\ UNCHANGED <<clientVars, handlers, listening, inbox, invoked, coreVars, quotaVars>>

(* ------------------------------ Next ----------------------------------- *)
Next ==
    \/ ClientInit
    \/ \E type \in Types, payload \in Payloads : Send(type, payload)
    \/ \E id \in Ids : Timeout(id)
    \/ HandleResponse
    \/ Terminate
    \/ WorkerError
    \/ \E type \in Types, h \in HandlerFns : RegisterHandler(type, h)
    \/ WorkerListen
    \/ RouterReceive
    \/ \E r \in running : RouterRespond(r)

Spec == Init /\ [][Next]_vars

\* an armed timer eventually fires (the browser's timer task source)
FairSpec == Spec /\ \A id \in Ids : WF_vars(Timeout(id))

(* --------------------------- WorkerOneCore ----------------------------- *)
\* positions an init() invocation waits at: "loading" is the dynamic import
\* of the recipes ('Loading recipes...'), "initializing" everything from the
\* construction of SingleUserNoAuth to the last model init()
CorePositions == {"loading", "initializing"}

\* invocations waiting at the same position are not told apart: when one of
\* them moves on, `stays` tells whether another one is left behind
Leave(at, stays) == IF stays THEN initRuns ELSE initRuns \ {at}

\* workerOneCore.init() is called and reaches its first await
CoreInit ==
    /\ worker # 0
    /\ initRuns' = initRuns \cup {"loading"}
    /\ UNCHANGED lastOp
    /\ UNCHANGED <<clientVars, handlers, listening, inbox, running, invoked, outbox,
                   initialized, isReady, initFailed, llmManager, quotaVars>>

\* mutant: initialized and isReady are set as soon as the recipes are loaded
CoreInitStepEarlyReady(at, stays) ==
    /\ at \in initRuns
    /\ IF at = "loading"
       THEN /\ initRuns' = Leave(at, stays) \cup {"initializing"}
            /\ UNCHANGED llmManager
       ELSE /\ initRuns' = Leave(at, stays)
            /\ llmManager' = TRUE
    /\ initialized' = TRUE
    /\ isReady' = TRUE
    /\ UNCHANGED lastOp
    /\ UNCHANGED <<clientVars, handlers, listening, inbox, running, invoked, outbox,
                   initFailed, quotaVars>>

\* an init() invocation gets past the awaits of its position; past the last
\* one it sets initialized and isReady
CoreInitStep(at, stays) ==
    /\ at \in initRuns
    /\ IF at = "loading"
       THEN /\ initRuns' = Leave(at, stays) \cup {"initializing"}
            /\ UNCHANGED <<initialized, isReady, llmManager>>
       ELSE /\ initRuns' = Leave(at, stays)
            /\ llmManager' = TRUE
            /\ initialized' = TRUE
            /\ isReady' = TRUE
    /\ UNCHANGED lastOp
    /\ UNCHANGED <<clientVars, handlers, listening, inbox, running, invoked, outbox,
                   initFailed, quotaVars>>

\* an await of init() rejects: the catch block sets initFailed and rethrows;
\* the await that rejects may come before or after the assignment of
\* llmManager
CoreInitFail(at, stays) ==
    /\ at \in initRuns
    /\ initRuns' = Leave(at, stays)
    /\ initFailed' = TRUE
    /\ llmManager' \in IF at = "loading" THEN {llmManager} ELSE {llmManager, TRUE}
    /\ UNCHANGED lastOp
    /\ UNCHANGED <<clientVars, handlers, listening, inbox, running, invoked, outbox,
                   initialized, isReady, quotaVars>>

\* workerOneCore.shutdown()
CoreShutdown ==
    /\ worker # 0
    /\ initialized' = FALSE
    /\ isReady' = FALSE
    /\ UNCHANGED lastOp
    /\ UNCHANGED <<clientVars, handlers, listening, inbox, running, invoked, outbox,
                   initFailed, initRuns, llmManager, quotaVars>>

\* one worker from its creation on: the client initializes once and talks to
\* it, the worker script registers handlers, routes requests and runs its
\* WorkerOneCore
WorkerNext ==
    \/ ClientInit
    \/ \E type \in WorkerTypes, payload \in Payloads : Send(type, payload)
    \/ HandleResponse
    \/ \E type \in WorkerTypes, h \in HandlerFns : RegisterHandler(type, h)
    \/ WorkerListen
    \/ RouterReceive
    \/ \E r \in running : RouterRespond(r)
    \/ CoreInit
    \/ \E at \in CorePositions, stays \in BOOLEAN : CoreInitStep(at, stays)
    \/ \E at \in CorePositions, stays \in BOOLEAN : CoreInitFail(at, stays)
    \/ CoreShutdown

WorkerSpec == Init /\ [][WorkerNext]_vars

\* the worker script with the status handler: the handler is registered
\* before the script attaches the router
StatusListen == MapHas(handlers, StatusType) /\ WorkerListen

\* a client polling the status of a worker that runs its WorkerOneCore
StatusNext ==
    \/ ClientInit
    \/ \E payload \in Payloads : Send(StatusType, payload)
    \/ HandleResponse
    \/ RegisterHandler(StatusType, StatusFn)
    \/ StatusListen
    \/ RouterReceive
    \/ \E r \in running : RouterRespond(r)
    \/ CoreInit
    \/ \E at \in CorePositions, stays \in BOOLEAN : CoreInitStep(at, stays)
    \/ \E at \in CorePositions, stays \in BOOLEAN : CoreInitFail(at, stays)
    \/ CoreShutdown

StatusSpec == Init /\ [][StatusNext]_vars

(* ------------------------ storage permissions -------------------------- *)
\* what navigator.storage may look like: absent, without an estimate method,
\* with an estimate() that rejects, or complete
StorageApis == {"none", "noEstimate", "estimateRejects", "full"}
\* the usage and quota properties of an estimate, in bytes; the quotient
\* usage / quota * 100 is exact for all of them
Usages == {Undefined, 0, 40, 80, 190}
Quotas == {Undefined, 0, 100, 200}
\* navigator.storage.persisted: not there, resolving, or rejecting
Persisteds == {"missing", "true", "false", "rejects"}
Platforms == [api : StorageApis, usage : Usages, quota : Quotas, persisted : Persisteds]

\* JavaScript `x || 0` for a number or undefined
OrZero(x) == IF x = Undefined THEN 0 ELSE x

\* StoragePermissionsService.isPersistent
IsPersistent(pf) ==
    IF pf.api = "none" \/ pf.persisted = "missing" THEN FALSE
    ELSE IF pf.persisted = "rejects" THEN FALSE
    ELSE pf.persisted = "true"

\* mutant: getQuota guards the estimate call instead of relying on its catch
\* block, so a missing estimate method no longer discards isPersistent()
GetQuotaGuarded(pf) ==
    IF pf.api \in {"none", "noEstimate"}
    THEN [usage |-> 0, quota |-> 0, persistent |-> IsPersistent(pf)]
    ELSE IF pf.api = "estimateRejects"
    THEN [usage |-> 0, quota |-> 0, persistent |-> FALSE]
    ELSE [usage |-> OrZero(pf.usage), quota |-> OrZero(pf.quota),
          persistent |-> IsPersistent(pf)]

\* StoragePermissionsService.getQuota: without navigator.storage the estimate
\* is the literal {usage: 0, quota: 0}; a missing estimate method throws and
\* a rejected estimate() rejects Promise.all, and the catch block answers both
GetQuota(pf) ==
    IF pf.api = "none"
    THEN [usage |-> 0, quota |-> 0, persistent |-> IsPersistent(pf)]
    ELSE IF pf.api \in {"noEstimate", "estimateRejects"}
    THEN [usage |-> 0, quota |-> 0, persistent |-> FALSE]
    ELSE [usage |-> OrZero(pf.usage), quota |-> OrZero(pf.quota),
          persistent |-> IsPersistent(pf)]

\* quota.quota > 0 ? (quota.usage / quota.quota) * 100 : 0
UsagePercent(q) == IF q.quota > 0 THEN (q.usage * 100) \div q.quota ELSE 0

\* the level both components derive from the percentage
Level(percent) ==
    IF percent >= 95 THEN "critical"
    ELSE IF percent >= 80 THEN "warning"
    ELSE "none"

(* --------------------------- StorageQuota ------------------------------ *)
\* the warnings array loadStorageState builds for a percentage
WarningsFor(percent) ==
    IF Level(percent) = "critical"
    THEN <<[level |-> "critical", threshold |-> 95, timestamp |-> now]>>
    ELSE IF Level(percent) = "warning"
    THEN <<[level |-> "warning", threshold |-> 80, timestamp |-> now]>>
    ELSE <<>>

\* mutant: the percentage is left as the fraction usage / quota
StorageStateFraction(q) ==
    [set |-> TRUE, quota |-> q.quota, usage |-> q.usage,
     percentage |-> IF q.quota > 0 THEN q.usage \div q.quota ELSE 0,
     available |-> q.quota - q.usage,
     persistent |-> q.persistent, warnings |-> WarningsFor(UsagePercent(q))]

\* the object loadStorageState passes to setStorageState
StorageStateOf(q) ==
    [set |-> TRUE, quota |-> q.quota, usage |-> q.usage,
     percentage |-> UsagePercent(q), available |-> q.quota - q.usage,
     persistent |-> q.persistent, warnings |-> WarningsFor(UsagePercent(q))]

\* the browser's storage changes: the origin writes or deletes data, the
\* quota is recomputed, persistence is granted
PlatformChange(pf) ==
    /\ platform' = pf
    /\ lastOp' = Op("platformChange")
    /\ UNCHANGED <<clientVars, workerVars, storageState, now, toasts, removals,
                   clearArmed, emitted, polled, measuring>>

\* StorageQuota.loadStorageState
LoadStorageState ==
    /\ storageState' = StorageStateOf(GetQuota(platform))
    /\ lastOp' = Op("loadStorageState")
    /\ UNCHANGED <<clientVars, workerVars, platform, now, toasts, removals,
                   clearArmed, emitted, polled, measuring>>

\* the storage view of the UI: the browser's storage changes under it and
\* the component reloads its state, at mount and every 30 seconds
StorageNext ==
    \/ \E pf \in Platforms : PlatformChange(pf)
    \/ LoadStorageState

StorageSpec == Init /\ [][StorageNext]_vars

(* --------------------------- StorageWarning ---------------------------- *)
\* 5 * 60 * 1000 ms, the age below which a toast of the same level is
\* recent, in ticks of 150 s
CoolDown == 2
\* what getQuota() resolves to when checkQuota runs
Measurements == [usage : {50, 82, 83, 95, 96}, quota : {100}]
ToastId(t) == <<t.level, t.timestamp>>
ActiveToasts == {k \in DOMAIN toasts : ~toasts[k].dismissed}

\* Date.now() moves on
Tick ==
    /\ now < MaxTime
    /\ now' = now + 1
    /\ UNCHANGED lastOp
    /\ UNCHANGED <<clientVars, workerVars, platform, storageState, toasts, removals,
                   clearArmed, emitted, polled, measuring>>

\* checkQuota, called at mount or by the interval, up to its await
CheckQuotaCall(q) ==
    /\ Len(polled) + Cardinality(measuring) < MaxPolls
    /\ q \notin measuring
    /\ measuring' = measuring \cup {q}
    /\ UNCHANGED lastOp
    /\ UNCHANGED <<clientVars, workerVars, platform, storageState, now, toasts,
                   removals, clearArmed, emitted, polled>>

\* checkQuota from the result of getQuota() on, the state update of
\* setToasts included
CheckQuotaResume(q) ==
    /\ q \in measuring
    /\ measuring' = measuring \ {q}
    /\ LET usagePercent == UsagePercent(q)
           level == Level(usagePercent)
           hasRecentWarning ==
               \E k \in DOMAIN toasts :
                   /\ toasts[k].level = level
                   /\ now - toasts[k].timestamp < CoolDown
       IN /\ polled' = Append(polled, usagePercent)
          /\ IF level = "none" \/ hasRecentWarning
             THEN UNCHANGED <<toasts, emitted>>
             ELSE /\ toasts' = Append(toasts, [level |-> level, timestamp |-> now,
                                               dismissed |-> FALSE])
                  /\ emitted' = Append(emitted, [level |-> level, timestamp |-> now])
    /\ UNCHANGED lastOp
    /\ UNCHANGED <<clientVars, workerVars, platform, storageState, now, removals,
                   clearArmed>>

\* dismissToast(id), from the X button of a toast on display
DismissToast(k) ==
    /\ k \in ActiveToasts
    /\ toasts' = [j \in DOMAIN toasts |->
                     IF ToastId(toasts[j]) = ToastId(toasts[k])
                     THEN [toasts[j] EXCEPT !.dismissed = TRUE]
                     ELSE toasts[j]]
    /\ removals' = removals \cup {ToastId(toasts[k])}
    /\ UNCHANGED lastOp
    /\ UNCHANGED <<clientVars, workerVars, platform, storageState, now,
                   clearArmed, emitted, polled, measuring>>

\* the 300 ms timer of dismissToast
RemoveToast(id) ==
    /\ id \in removals
    /\ removals' = removals \ {id}
    /\ LET Keep(t) == ToastId(t) # id
       IN toasts' = SelectSeq(toasts, Keep)
    /\ UNCHANGED lastOp
    /\ UNCHANGED <<clientVars, workerVars, platform, storageState, now,
                   clearArmed, emitted, polled, measuring>>

\* dismissAll, from the button shown above more than one toast
DismissAll ==
    /\ Cardinality(ActiveToasts) > 1
    /\ toasts' = [j \in DOMAIN toasts |-> [toasts[j] EXCEPT !.dismissed = TRUE]]
    /\ clearArmed' = TRUE
    /\ UNCHANGED lastOp
    /\ UNCHANGED <<clientVars, workerVars, platform, storageState, now,
                   removals, emitted, polled, measuring>>

\* the 300 ms timer of dismissAll
ClearToasts ==
    /\ clearArmed
    /\ clearArmed' = FALSE
    /\ toasts' = <<>>
    /\ UNCHANGED lastOp
    /\ UNCHANGED <<clientVars, workerVars, platform, storageState, now,
                   removals, emitted, polled, measuring>>

\* the mounted StorageWarning component: its polls, the clock and the user
MonitorNext ==
    \/ Tick
    \/ \E q \in Measurements : CheckQuotaCall(q)
    \/ \E q \in Measurements : CheckQuotaResume(q)
    \/ \E k \in DOMAIN toasts : DismissToast(k)
    \/ \E id \in removals : RemoveToast(id)
    \/ DismissAll
    \/ ClearToasts

MonitorSpec == Init /\ [][MonitorNext]_vars

\* the StorageWarning component mounted next to the StorageQuota component:
\* state requests are answered while polls are awaiting their measurement
OverlapNext ==
    \/ MonitorNext
    \/ LoadStorageState

OverlapSpec == Init /\ [][OverlapNext]_vars

\* a client calling ai:chat on a worker that runs its WorkerOneCore
AiType == "ai:chat"
AiNext ==
    \/ ClientInit
    \/ \E payload \in Payloads : Send(AiType, payload)
    \/ HandleResponse
    \/ RegisterHandler(AiType, AiChatFn)
    \/ WorkerListen
    \/ RouterReceive
    \/ \E r \in running : RouterRespond(r)
    \/ CoreInit
    \/ \E at \in CorePositions, stays \in BOOLEAN : CoreInitStep(at, stays)
    \/ \E at \in CorePositions, stays \in BOOLEAN : CoreInitFail(at, stays)
    \/ CoreShutdown

AiSpec == Init /\ [][AiNext]_vars

\* the bootstrap handler gets to its call of workerOneCore.init()
BootstrapStart(r) ==
    /\ r \in running
    /\ r.h = BootstrapFn
    /\ running' = (running \ {r}) \cup {[r EXCEPT !.h = AwaitInit]}
    /\ initRuns' = initRuns \cup {"loading"}
    /\ UNCHANGED lastOp
    /\ UNCHANGED <<clientVars, handlers, listening, inbox, invoked, outbox,
                   initialized, isReady, initFailed, llmManager, quotaVars>>

\* the init() awaited by the bootstrap handler has settled
BootstrapRespond(r) ==
    /\ r.h = AwaitInit
    /\ initRuns = {}
    /\ RouterRespond(r)

\* the handler of an ordinary request settles
OrdinaryRespond(r) ==
    /\ r.h \notin {BootstrapFn, AwaitInit}
    /\ RouterRespond(r)

\* the worker script registers the bootstrap handler before it attaches the
\* router
BootstrapListen == MapHas(handlers, BootstrapType) /\ WorkerListen

\* a client that initializes the worker's WorkerOneCore through the protocol
\* and sends an ordinary request
OrdinaryType == "chat:sendMessage"
BootstrapNext ==
    \/ ClientInit
    \/ \E type \in {BootstrapType, OrdinaryType} : Send(type, 1)
    \/ HandleResponse
    \/ RegisterHandler(BootstrapType, BootstrapFn)
    \/ RegisterHandler(OrdinaryType, "echo")
    \/ BootstrapListen
    \/ RouterReceive
    \/ \E r \in running : BootstrapStart(r)
    \/ \E r \in running : BootstrapRespond(r)
    \/ \E r \in running : OrdinaryRespond(r)
    \/ \E at \in CorePositions, stays \in BOOLEAN : CoreInitStep(at, stays)
    \/ \E at \in CorePositions, stays \in BOOLEAN : CoreInitFail(at, stays)
    \/ CoreShutdown

BootstrapSpec == Init /\ [][BootstrapNext]_vars

(* ------------------------------ claims --------------------------------- *)
IsPending(i) == MapHas(pendingRequests, i)
TimeoutError == Err("Request timeout", NoCode)
TerminatedError == Err("Worker terminated", NoCode)
Events(i) == {settled[i][k] : k \in DOMAIN settled[i]}
\* HandleResponse is the only step that removes the head of the outbox
Delivers(i) == outbox # <<>> /\ Head(outbox).id = i /\ outbox' = Tail(outbox)
\* what the response to request i settles its promise with, given the handler
\* the router invoked for it
OwnOutcome(i) ==
    IF invoked[i] = NoHandler
    THEN Reject(Err("No handler registered for type", "OPERATION_FAILED"))
    ELSE LET result == HandlerResult(invoked[i], requests[i].payload)
         IN IF result.ok THEN Resolve(result.data)
                         ELSE Reject(Err(IF result.message = ""
                                         THEN "Unknown error"
                                         ELSE result.message,
                                         "OPERATION_FAILED"))

\* C1: a send(T, P) whose promise is resolved is resolved with exactly the
\* data that the handler registered for T returns for P; when that handler
\* returns data for P, a call that was settled neither by its timeout nor by
\* terminate() is resolved with that data; and the handler the router
\* invokes for a request is the one registered under the type of the call.
C1_RoundTrip ==
    /\ [](\A i \in DOMAIN requests :
            LET result == HandlerResult(invoked[i], requests[i].payload)
            IN /\ \A e \in Events(i) : e.kind = "resolve" =>
                      /\ invoked[i] \in HandlerFns
                      /\ result.ok
                      /\ e.value = result.data
               /\ ( /\ invoked[i] \in HandlerFns
                    /\ result.ok
                    /\ settled[i] # <<>>
                    /\ settled[i][1] \notin {Reject(TimeoutError), Reject(TerminatedError)} )
                  => settled[i][1] = Resolve(result.data))
    /\ [][\A i \in Ids : invoked'[i] # invoked[i] =>
              /\ i \in DOMAIN requests
              /\ MapHas(handlers, requests[i].type)
              /\ invoked'[i] = handlers[requests[i].type]]_vars

\* C1 witness: a call for a registered type was resolved with its handler's data
C1_Witness ==
    \E i \in DOMAIN requests :
        /\ requests[i].payload = 2
        /\ MapHas(handlers, requests[i].type)
        /\ settled[i] = <<Resolve(<<"echo", 2>>)>>

\* C2: when the response of a call is delivered while another call is still
\* pending (in particular one that was sent earlier, so that the responses
\* arrive in the opposite order), the call is settled with the outcome of its
\* own request and the other call is neither settled nor removed.
C2_OutOfOrder ==
    [][\A i \in Ids : (Delivers(i) /\ IsPending(i)) =>
          /\ settled'[i] = <<OwnOutcome(i)>>
          /\ \A j \in Ids \ {i} :
                 /\ settled'[j] = settled[j]
                 /\ IsPending(j) => (MapHas(pendingRequests', j)
                                      /\ pendingRequests'[j] = pendingRequests[j])]_vars

\* C2 witness: the second call was resolved with its own result while the
\* first call, sent before it with another payload, is still awaited
C2_Witness ==
    /\ MaxCalls >= 2
    /\ lastOp.op = "response"
    /\ 2 \in DOMAIN requests
    /\ IsPending(1)
    /\ \E r \in running : r.id = 1
    /\ requests[1].payload = 1
    /\ requests[2].payload = 2
    /\ settled[2] = <<Resolve(<<invoked[2], 2>>)>>

\* C3: every pending call is settled exactly once: a call is in the pending
\* table exactly as long as nothing settled it, leaves the table at the
\* moment it is settled, and is never settled a second time.
C3_SettledOnce ==
    \A i \in Ids :
        /\ Len(settled[i]) <= 1
        /\ i \in DOMAIN requests => (IsPending(i) <=> settled[i] = <<>>)
        /\ i \notin DOMAIN requests => (~IsPending(i) /\ settled[i] = <<>>)

\* C3 witness: one call was rejected by its timeout, its late response was
\* dropped, and another call was rejected by terminate()
C3_Witness ==
    /\ lastOp.op = "dropped"
    /\ \E i, j \in Ids :
          /\ settled[i] = <<Reject(TimeoutError)>>
          /\ invoked[i] # NoHandler
          /\ settled[j] = <<Reject(TerminatedError)>>

\* C4: every call that send() registered in the pending table is eventually
\* settled (it leaves the table with a resolve or reject recorded), even if
\* the worker never answers, provided armed timers eventually fire.
C4_EventuallySettled ==
    \A i \in Ids : IsPending(i) ~> (~IsPending(i) /\ Len(settled[i]) >= 1)

\* C4 witness: a call whose request the worker never even received was
\* rejected by its timeout
C4_Witness ==
    \E i \in DOMAIN requests :
        /\ \E k \in DOMAIN inbox : inbox[k].id = i
        /\ settled[i] = <<Reject(TimeoutError)>>

\* C5: when the timeout of a pending call fires, the call is rejected with
\* an error whose code is HANDLER_TIMEOUT.
C5_TimeoutCode ==
    [][\A i \in Ids : (lastOp'.op = "timeout" /\ i \in timers /\ i \notin timers') =>
          /\ Len(settled'[i]) = Len(settled[i]) + 1
          /\ settled'[i][Len(settled'[i])].kind = "reject"
          /\ settled'[i][Len(settled'[i])].error.code = "HANDLER_TIMEOUT"]_vars

\* C6: the timeout of one pending call touches only that call: every other
\* pending entry, its timer and its promise are left as they were, and so is
\* the worker; the router takes the next request while a handler is still
\* awaited, and a finished handler is answered whatever else is running, so
\* a call sent after a never-answered one is resolved with its own result.
C6_TimeoutIndependence ==
    /\ [][\A i \in Ids : (lastOp'.op = "timeout" /\ i \in timers /\ i \notin timers') =>
              /\ \A j \in Ids \ {i} :
                     /\ IsPending(j) <=> MapHas(pendingRequests', j)
                     /\ IsPending(j) => pendingRequests'[j] = pendingRequests[j]
                     /\ j \in timers <=> j \in timers'
                     /\ settled'[j] = settled[j]
              /\ UNCHANGED workerVars]_vars
    /\ [][\A j \in Ids : (Delivers(j) /\ IsPending(j) /\ Head(outbox).success
                            /\ \E i \in Ids \ {j} : IsPending(i)) =>
              settled'[j] = <<Resolve(HandlerResult(invoked[j], requests[j].payload).data)>>]_vars
    /\ []((listening /\ inbox # <<>>) => ENABLED RouterReceive)
    /\ [](\A r \in running : ENABLED RouterRespond(r))

\* C6 witness: the first call timed out while its handler never answered,
\* and the second call, sent after it, was resolved with its own result
\* before that timeout
C6_Witness ==
    /\ MaxCalls >= 2
    /\ lastOp.op = "timeout"
    /\ 2 \in DOMAIN requests
    /\ settled[1] = <<Reject(TimeoutError)>>
    /\ \E r \in running : r.id = 1
    /\ settled[2] = <<Resolve(<<invoked[2], requests[2].payload>>)>>

\* C7: a response whose id has no entry in the pending table is dropped:
\* the pending table, the timers and every promise are left unchanged.
C7_UnknownDropped ==
    [][(outbox # <<>> /\ ~IsPending(Head(outbox).id) /\ outbox' = Tail(outbox)) =>
          UNCHANGED <<pendingRequests, timers, settled>>]_vars

\* C7 witness: the response of a call that had timed out arrived and was
\* dropped while another call was pending
C7_Witness ==
    /\ lastOp.op = "dropped"
    /\ \E i, j \in Ids :
          /\ settled[i] = <<Reject(TimeoutError)>>
          /\ invoked[i] # NoHandler
          /\ \A k \in DOMAIN outbox : outbox[k].id # i
          /\ \A r \in running : r.id # i
          /\ IsPending(j)

\* C8: terminate() rejects every pending call with a 'Worker terminated'
\* error and empties the pending table, and a call rejected by terminate()
\* is never resolved or rejected again, by a response or by a timer.
C8_TerminateDrains ==
    [][/\ lastOp'.op = "terminate" =>
            /\ pendingRequests' = EmptyMap
            /\ \A i \in Ids :
                   settled'[i] = IF IsPending(i)
                                 THEN Append(settled[i], Reject(TerminatedError))
                                 ELSE settled[i]
       /\ \A i \in Ids :
              Reject(TerminatedError) \in Events(i) => settled'[i] = settled[i]]_vars

\* C8 witness: two pending calls were rejected by terminate(), and a
\* response delivered afterwards was dropped
C8_Witness ==
    /\ MaxCalls >= 2
    /\ lastOp.op = "dropped"
    /\ 2 \in DOMAIN requests
    /\ settled[1] = <<Reject(TerminatedError)>>
    /\ settled[2] = <<Reject(TerminatedError)>>

\* C9: a terminate() that follows a terminate(), or that is called on a
\* client that was never initialized, changes nothing: no promise is
\* rejected again and the client and the worker side stay as they were.
C9_TerminateIdempotent ==
    [][(lastOp'.op = "terminate" /\ (lastOp.op = "terminate" \/ ~everCreated)) =>
          UNCHANGED <<clientVars, workerVars>>]_vars

\* C9 witness: terminate() ran twice in a row after it had rejected a call
C9_Witness ==
    /\ lastOp.op = "terminate"
    /\ lastOp.again
    /\ \E i \in Ids : settled[i] = <<Reject(TerminatedError)>>

\* C10: when the worker's error event is delivered to the client, every
\* call pending at that moment is rejected and removed from the pending
\* table.
C10_WorkerErrorRejectsAll ==
    lastOp.op = "workerError" =>
        /\ pendingRequests = EmptyMap
        /\ \A i \in DOMAIN requests : settled[i] # <<>>

\* a step of init(): the only client operation that records "init" or
\* "initWarned", and every client operation renews lastOp unless it changes
\* nothing at all
InitCalled == lastOp' # lastOp /\ lastOp'.op \in {"init", "initWarned"}

\* C11 (as stated): once init() has created the worker, every later init()
\* call on the same client is a no-op: no second worker is created, no
\* second listener is attached and the pending table is unchanged.
C11_InitOnce ==
    [][(everCreated /\ InitCalled) => UNCHANGED <<clientVars, workerVars>>]_vars

\* C11 (amended): init() is a no-op exactly while the client holds a worker;
\* after terminate() has set the worker back to null, init() creates a new one.
C11_InitNoopWhileWorker ==
    [][InitCalled =>
          IF worker # 0
          THEN UNCHANGED <<clientVars, workerVars>>
          ELSE worker' # 0 /\ UNCHANGED <<pendingRequests, timers, settled>>]_vars

\* init() was called again while a call was pending on a worker whose router
\* is attached
C11_Witness ==
    /\ lastOp.op = "initWarned"
    /\ listening
    /\ pendingRequests # EmptyMap

\* C12 (as stated): a success:false response for a pending call rejects the
\* call with an Error carrying the response's error.code and error.message.
C12_RejectCarriesError ==
    [][\A i \in Ids :
          (Delivers(i) /\ IsPending(i) /\ ~Head(outbox).success) =>
              settled'[i] = Append(settled[i],
                  Reject(Err(Head(outbox).error.message,
                             Head(outbox).error.code)))]_vars

\* C12 (amended): the rejection carries the response's error.code, and its
\* error.message unless that message is empty, in which case the message is
\* 'Unknown error'; the call is never resolved.
C12_RejectCarriesErrorOrUnknown ==
    [][\A i \in Ids :
          (Delivers(i) /\ IsPending(i) /\ ~Head(outbox).success) =>
              settled'[i] = Append(settled[i],
                  Reject(Err(IF Head(outbox).error.message = ""
                             THEN "Unknown error"
                             ELSE Head(outbox).error.message,
                             Head(outbox).error.code)))]_vars

\* one call was rejected with the message of its failure response, another
\* with the substituted message
C12_Witness ==
    /\ settled[1] = <<Reject(Err("boom", "OPERATION_FAILED"))>>
    /\ settled[2] = <<Reject(Err("Unknown error", "OPERATION_FAILED"))>>

\* the router takes the request at the head of the inbox
RouterTakes == listening /\ listening' /\ inbox # <<>> /\ inbox' = Tail(inbox)
\* the response a step appends to the outbox
Posts(x) == outbox' = Append(outbox, x)
PostsOne == Len(outbox') = Len(outbox) + 1 /\ Posts(outbox'[Len(outbox')])
Posted == outbox'[Len(outbox')]
NotInitializedCodes == {"WORKER_NOT_INITIALIZED", "ONECORE_NOT_INITIALIZED"}

\* C13: while the phase is not ready, a request of an ordinary (non-bootstrap)
\* type is answered at once with a not-initialized error code and its
\* handler is not invoked.
C13_NotReadyGate ==
    [][(RouterTakes /\ Phase # "ready"
          /\ Head(inbox).type \notin {BootstrapType, StatusType}) =>
          /\ invoked' = invoked
          /\ running' = running
          /\ PostsOne
          /\ Posted.id = Head(inbox).id
          /\ ~Posted.success
          /\ Posted.error.code \in NotInitializedCodes]_vars

\* C14: registering a type that already has a handler leaves the registry
\* unchanged, so the first handler stays the one registered for the type.
C14_RegisterUnique ==
    [][\A t \in Types :
          (MapHas(handlers, t) /\ MapHas(handlers', t)) =>
              handlers'[t] = handlers[t]]_vars

\* C15: while the phase is ready, a request whose type has no registered
\* handler is answered with success:false and code HANDLER_NOT_FOUND.
C15_HandlerNotFound ==
    [][(RouterTakes /\ Phase = "ready" /\ ~MapHas(handlers, Head(inbox).type)) =>
          /\ PostsOne
          /\ Posted.id = Head(inbox).id
          /\ ~Posted.success
          /\ Posted.error.code = "HANDLER_NOT_FOUND"]_vars

\* C16: the response to a request whose handler threw is success:false with
\* the thrown value's message and with its code if it carries one, otherwise
\* OPERATION_FAILED.
C16_ThrownCode ==
    \A k \in DOMAIN outbox :
        LET x == outbox[k]
            i == x.id
        IN invoked[i] \in HandlerFns =>
              LET result == HandlerResult(invoked[i], requests[i].payload)
              IN ~result.ok =>
                    /\ ~x.success
                    /\ x.error.message = result.message
                    /\ x.error.code = IF result.code # NoCode
                                      THEN result.code
                                      ELSE "OPERATION_FAILED"

\* the validator of the HandlerRegistration that handler h belongs to:
\* "strict" comes with a validator accepting payload 1 only, "echo" with none
ValidPayload(h, p) == h = "strict" => p = 1

\* C17: a request whose payload fails the validator registered for its type
\* is answered with INVALID_PAYLOAD and its handler is not invoked.
C17_InvalidPayload ==
    [][(RouterTakes /\ MapHas(handlers, Head(inbox).type)
          /\ ~ValidPayload(handlers[Head(inbox).type], Head(inbox).payload)) =>
          /\ invoked' = invoked
          /\ running' = running
          /\ PostsOne
          /\ Posted.id = Head(inbox).id
          /\ ~Posted.success
          /\ Posted.error.code = "INVALID_PAYLOAD"]_vars

\* ids of the requests the worker holds: posted to it and not yet routed, or
\* routed to a handler that is still awaited
InHandling == {inbox[k].id : k \in DOMAIN inbox} \cup {r.id : r \in running}
Occurrences(i) ==
    Cardinality({k \in DOMAIN inbox : inbox[k].id = i})
        + Cardinality({r \in running : r.id = i})
\* the handling of request i completes in this step: its awaited handler
\* settles, or the router finds no handler for it
Completes(i) ==
    \/ listening' /\ \E r \in running : r.id = i /\ r \notin running'
    \/ RouterTakes /\ Head(inbox).id = i /\ ~MapHas(handlers, Head(inbox).type)

\* C18: the router posts exactly one response for every request whose
\* handling completes, with the request's id: the completing step posts one
\* response, nothing else posts a response, and a request is handled once.
C18_ExactlyOneResponse ==
    /\ [][\A i \in Ids : Completes(i) => (PostsOne /\ Posted.id = i)]_vars
    /\ [][Len(outbox') > Len(outbox) =>
             \E i \in Ids : Completes(i) /\ PostsOne /\ Posted.id = i]_vars
    /\ [](\A i \in InHandling : i < nextId /\ Occurrences(i) = 1)
    /\ [][/\ nextId' >= nextId
          /\ \A i \in Ids : (i \in InHandling' /\ i \notin InHandling) =>
                               (i = nextId /\ nextId' = nextId + 1)]_vars

\* both requests were handled, one by a handler that returned and one by a
\* handler that threw, and their responses are in the outbox
C18_Witness ==
    /\ nextId = 3
    /\ InHandling = {}
    /\ Len(outbox) = 2
    /\ outbox[1].id # outbox[2].id
    /\ outbox[1].success /\ ~outbox[2].success

NoError == Err("", NoCode)

\* C19: in every response the worker posts, data is present only when
\* success is true, error is present exactly when success is false, and
\* never both.
C19_DataXorError ==
    \A k \in DOMAIN outbox :
        LET x == outbox[k]
        IN /\ x.data # NoData => x.success
           /\ x.error # NoError <=> ~x.success
           /\ ~(x.data # NoData /\ x.error # NoError)

\* the outbox holds a response of a handler that threw next to one of a
\* handler that returned data
C19_Witness ==
    /\ \E k \in DOMAIN outbox : outbox[k].success /\ outbox[k].data # NoData
    /\ \E k \in DOMAIN outbox :
          ~outbox[k].success /\ invoked[outbox[k].id] = "strict"

\* order of the phases on the way to ready
PhaseRank(ph) ==
    CASE ph = "not_started" -> 0
      [] ph = "loading" -> 1
      [] ph = "initializing" -> 2
      [] OTHER -> 3

\* C20: the phase only moves forward, apart from the move into error, and
\* once it is ready or error it never changes again.
C20_PhaseForward ==
    [][Phase' # Phase =>
          /\ Phase \notin {"ready", "error"}
          /\ (Phase' = "error" \/ PhaseRank(Phase') > PhaseRank(Phase))]_vars

\* loadStorageState has just run on the platform as it is now
Loaded == lastOp.op = "loadStorageState" /\ storageState.set
EstimateUnavailable == platform.api \in {"none", "noEstimate"}

C27_GetStateSilent ==
    /\ [](storageState.set =>
            \A k \in DOMAIN storageState.warnings :
                \E e \in DOMAIN emitted :
                    emitted[e].level = storageState.warnings[k].level)
    /\ [][lastOp'.op = "loadStorageState" => UNCHANGED <<toasts, emitted>>]_vars

\* a checkQuota run comes back from its await and classifies its reading
Polls == Len(polled') = Len(polled) + 1
Reading == polled'[Len(polled')]
\* a warning of that level was emitted less than one cool-down ago
RecentlyEmitted(level) ==
    \E e \in DOMAIN emitted :
        emitted[e].level = level /\ now - emitted[e].timestamp < CoolDown
Emits(level) == emitted' = Append(emitted, [level |-> level, timestamp |-> now])

\* C22: two warnings of the same level are never emitted less than one
\* cool-down apart: a poll that classifies its reading at a level emitted
\* less than one cool-down ago emits and appends nothing.
C22_OnePerCoolDown ==
    /\ [](\A i, j \in DOMAIN emitted :
            (i < j /\ emitted[i].level = emitted[j].level) =>
                emitted[j].timestamp - emitted[i].timestamp >= CoolDown)
    /\ [][(Polls /\ RecentlyEmitted(Level(Reading))) =>
             UNCHANGED <<toasts, emitted>>]_vars

\* the level the thresholds of the monitor assign to a percentage
ThresholdLevel(percent) ==
    IF percent < 80 THEN "none"
    ELSE IF percent <= 95 THEN "warning"
    ELSE "critical"

\* C23: a poll classifies its percentage p as no warning for p < 80, as
\* warning for 80 <= p <= 95 and as critical for p > 95: what it emits is
\* of that level.
C23_Thresholds ==
    [][(Polls /\ emitted' # emitted) =>
          /\ Len(emitted') = Len(emitted) + 1
          /\ emitted'[Len(emitted')].level = ThresholdLevel(Reading)]_vars

\* C24: after the readings 50, 82, 96, 83 polled inside one cool-down
\* window, one warning and one critical event have been emitted; and a
\* reading in the warning range polled when no warning event is younger
\* than the cool-down emits a new warning event.
C24_ReadingSequence ==
    /\ []((/\ polled = <<50, 82, 96, 83>>
           /\ emitted # <<>>
           /\ now - emitted[1].timestamp < CoolDown) =>
              /\ Len(emitted) = 2
              /\ emitted[1].level = "warning"
              /\ emitted[2].level = "critical")
    /\ [][(Polls /\ Reading \in 80..94
             /\ ~RecentlyEmitted("warning")) => Emits("warning")]_vars

\* C28: the error phase is entered only from loading or initializing, never
\* directly from not-started and never from ready.
C28_ErrorOnlyFromRunning ==
    [][(Phase' = "error" /\ Phase # "error") =>
          Phase \in {"loading", "initializing"}]_vars

\* C30: the router checks the initialization gate before the handler lookup
\* and the lookup before the payload validation: a request of an unregistered
\* type taken while the phase is not ready is answered with a not-initialized
\* code and not with HANDLER_NOT_FOUND, and a request of an unregistered type
\* is never answered with INVALID_PAYLOAD.
C30_CheckOrder ==
    [][(RouterTakes /\ ~MapHas(handlers, Head(inbox).type)) =>
          /\ PostsOne
          /\ Posted.id = Head(inbox).id
          /\ ~Posted.success
          /\ Posted.error.code # "INVALID_PAYLOAD"
          /\ (Phase # "ready" /\ Head(inbox).type \notin {BootstrapType, StatusType}) =>
                /\ Posted.error.code \in NotInitializedCodes
                /\ Posted.error.code # "HANDLER_NOT_FOUND"]_vars

\* the awaited status handler of request r settles in this step
StatusSettles(r) == listening' /\ r \in running /\ r.h = StatusFn /\ r \notin running'

Sends == nextId' # nextId
\* a step of send() that threw at its guard
SendThrows == lastOp'.op = "sendThrew"

\* C37: send() called while the client holds no worker (before init() or
\* after terminate()) throws 'Worker not initialized' and does nothing else:
\* no pending entry is created, no timer is armed and nothing is posted; a
\* send() creates a pending entry, a timer and a posted request only when
\* the client holds a worker.
C37_SendWithoutWorker ==
    /\ [][SendThrows => UNCHANGED <<clientVars, workerVars>>]_vars
    /\ [][(worker = 0 /\ worker' = 0) =>
             /\ ~Sends
             /\ DOMAIN pendingRequests' \subseteq DOMAIN pendingRequests
             /\ timers' \subseteq timers
             /\ Len(inbox') <= Len(inbox)]_vars
    /\ [](lastOp.op = "sendThrew" => worker = 0)
    /\ [](worker = 0 => \A type \in Types, payload \in Payloads :
                            ENABLED (Send(type, payload) /\ SendThrows))

\* send() threw after terminate() had rejected a pending call
C37_Witness ==
    /\ lastOp.op = "sendThrew"
    /\ everCreated
    /\ worker = 0
    /\ \E i \in Ids : settled[i] = <<Reject(TerminatedError)>>

\* C38: the pending table and the armed timers correspond one to one: every
\* pending entry holds a timer that is armed and that no other entry holds,
\* every armed timer belongs to a pending entry, and no timer is armed for a
\* call that has been settled.
C38_PendingTimers ==
    /\ \A i \in DOMAIN pendingRequests :
          /\ pendingRequests[i].timeout \in timers
          /\ \A j \in DOMAIN pendingRequests :
                 pendingRequests[j].timeout = pendingRequests[i].timeout => j = i
    /\ \A t \in timers : \E i \in DOMAIN pendingRequests : pendingRequests[i].timeout = t
    /\ \A i \in Ids : settled[i] # <<>> => i \notin timers

\* one call was settled by its response and has no timer left while another
\* call is pending with its timer armed
C38_Witness ==
    /\ lastOp.op = "response"
    /\ \E i, j \in Ids :
          /\ settled[i] # <<>> /\ settled[i][1].kind = "resolve"
          /\ i \notin timers
          /\ IsPending(j) /\ pendingRequests[j].timeout \in timers
          /\ Cardinality(timers) = 1

\* the timeout callback of call i runs in this step
TimesOut(i) == lastOp'.op = "timeout" /\ i \in timers /\ i \notin timers'
TimedOut(i) == settled[i] = <<Reject(TimeoutError)>>

\* C33: a client-side timeout changes nothing in the worker: the step of the
\* timeout callback leaves the worker's inbox, its running handlers and its
\* outbox as they were; the handler of a timed-out call stays awaited until
\* it settles, the router then posts its response as for any other call, and
\* the client drops that response.
C33_TimeoutLeavesWorker ==
    /\ [][\A i \in Ids : TimesOut(i) =>
             UNCHANGED <<inbox, running, invoked, outbox, handlers, listening, worker>>]_vars
    /\ [][\A r \in running : (TimedOut(r.id) /\ listening') =>
             \/ r \in running'
             \/ /\ PostsOne
                /\ Posted.id = r.id
                /\ LET result == HandlerResult(r.h, r.payload)
                   IN Posted = IF result.ok
                               THEN SuccessResponse(r.id, result.data)
                               ELSE ErrorResponse(r.id, result.message)]_vars
    /\ [](\A r \in running : TimedOut(r.id) => ENABLED RouterRespond(r))
    /\ [][\A i \in Ids : (Delivers(i) /\ TimedOut(i)) =>
             /\ lastOp'.op = "dropped"
             /\ UNCHANGED <<pendingRequests, timers, settled>>]_vars

\* the response of a call is in the outbox after the call had timed out
\* while its handler was running
C33_Witness ==
    /\ lastOp.op = "timeout"
    /\ \E i \in Ids :
          /\ TimedOut(i)
          /\ ~IsPending(i)
          /\ \E k \in DOMAIN outbox : outbox[k].id = i /\ outbox[k].success

\* the warning a toast carries
WarningOf(t) == [level |-> t.level, timestamp |-> t.timestamp]

\* C34: the warnings list is append-only: every warning on the list stays on
\* it, at its place and unchanged, whatever step is taken (a poll, or the
\* user dismissing a warning).
C34_AppendOnly ==
    [][\A k \in DOMAIN toasts :
          /\ k \in DOMAIN toasts'
          /\ WarningOf(toasts'[k]) = WarningOf(toasts[k])]_vars

\* C36: polls never race with each other or with the answering of a state
\* request: whatever else is in flight, a poll that classifies its reading
\* at a level emits a warning of that level exactly if none was emitted less
\* than one cool-down ago, so that no warning is emitted twice inside one
\* cool-down window and none is lost; and answering a state request leaves
\* the monitor's polls and warnings alone.
C36_NoRace ==
    /\ [][(Polls /\ Level(Reading) # "none") =>
             IF RecentlyEmitted(Level(Reading))
             THEN UNCHANGED emitted
             ELSE Emits(Level(Reading))]_vars
    /\ [][(lastOp' # lastOp /\ lastOp'.op = "loadStorageState") =>
             UNCHANGED <<toasts, emitted, polled, measuring>>]_vars

\* the execution of handler h on payload p failed: the handler threw, or it
\* caught the failure itself
Failed(h, p) ==
    LET result == HandlerResult(h, p)
    IN ~result.ok \/ result.data[1] = "failed"

\* C35: every failure reaches the caller the same way: a request without a
\* registered handler and a request whose handler failed are both answered
\* with success:false and an error value, and the call is rejected, never
\* resolved.
C35_UniformFailure ==
    /\ [][(RouterTakes /\ ~MapHas(handlers, Head(inbox).type)) =>
             /\ PostsOne
             /\ ~Posted.success
             /\ Posted.error # NoError]_vars
    /\ [][\A r \in running : (listening' /\ r \notin running' /\ Failed(r.h, r.payload)) =>
             /\ PostsOne
             /\ Posted.id = r.id
             /\ ~Posted.success
             /\ Posted.error # NoError]_vars
    /\ [](\A i \in Ids : \A e \in Events(i) :
             e.kind = "resolve" => e.value[1] # "failed")

\* the router hands the request at the head of the inbox to the handler
\* registered for its type and posts nothing
Dispatches ==
    /\ RouterTakes
    /\ invoked'[Head(inbox).id] = handlers[Head(inbox).type]
    /\ \E r \in running' \ running : r.id = Head(inbox).id /\ r.payload = Head(inbox).payload
    /\ outbox' = outbox

\* C31: a request of the bootstrap type taken in any phase other than ready
\* is dispatched to its registered handler, and no response carries a
\* not-initialized code; initialization started this way can make the
\* worker ready.
C31_BootstrapDispatched ==
    /\ [][(RouterTakes /\ Head(inbox).type = BootstrapType /\ Phase # "ready") =>
             Dispatches]_vars
    /\ [](\A k \in DOMAIN outbox :
             requests[outbox[k].id].type = BootstrapType =>
                 outbox[k].error.code \notin NotInitializedCodes)
    /\ [][(initRuns' # initRuns /\ initRuns = {}) =>
             \E r \in running : r.h = BootstrapFn /\ r \notin running']_vars

\* the bootstrap request was answered with success and the worker is ready
C31_Witness ==
    /\ Phase = "ready"
    /\ \E k \in DOMAIN outbox :
          /\ requests[outbox[k].id].type = BootstrapType
          /\ outbox[k].success
          /\ outbox[k].data = <<"initialized", TRUE>>

\* what the router decides for a request, as a function of whether the phase
\* is ready, of the request's type and of the registry
Decision(ready, type, registry) ==
    IF MapHas(registry, type) THEN "dispatch" ELSE "reject"

\* C32: the router's decision and its response depend only on whether the
\* phase is ready and on the request's type (through the registry): however
\* far an initialization has got, a request is dispatched or rejected as
\* Decision says, and a rejection always carries the same error.
C32_DecisionIgnoresProgress ==
    [][RouterTakes =>
          IF Decision(Phase = "ready", Head(inbox).type, handlers) = "dispatch"
          THEN Dispatches
          ELSE /\ PostsOne
               /\ Posted = ErrorResponse(Head(inbox).id, "No handler registered for type")
               /\ UNCHANGED <<running, invoked>>]_vars

\* the ordinary request sent after the bootstrap request was dispatched and
\* its handler is running while the init() started by the bootstrap handler
\* is in progress
C32_Witness ==
    /\ Phase = "initializing"
    /\ ~llmManager
    /\ \E r \in running : r.id = 1 /\ r.h = AwaitInit
    /\ \E r \in running : r.id = 2 /\ r.h = "echo"

====
